---- MODULE Spec2Model ----
(***************************************************************************)
(* Call lifecycle of the confirmation-call system: the periodic driver     *)
(* (main.py), the retry scheduler loop (CallManager.run_scheduler), the    *)
(* webhook handlers (webhook_server.py) and the CallManager operations     *)
(* they share, over the external task board and the telephony provider.    *)
(*                                                                         *)
(* Time is counted in ticks (TicksPerHour ticks per hour).  Task ids are   *)
(* numbers up to NumTasks + 1 and call sids are the numbers above them:    *)
(* the two kinds of string never coincide (a board gid is numeric, a       *)
(* provider call sid is not), but both are used as keys of pending_calls.  *)
(* An optional value (None or a value) is a sequence of length 0 or 1.     *)
(***************************************************************************)
EXTENDS Integers, Sequences, FiniteSets, TLC

\* ---- bounds of the model
NumTasks == 1
MaxCalls == 2
MaxTime == 1
TicksPerHour == 1
MaxWarnings == 1
MaxJobs == 1
MaxUptime == 25
MaxDriverCalls == 4

\* ---- configuration (config.py)
MAX_RETRY_ATTEMPTS == 3
RETRY_DELAY_HOURS == 1

Tasks == 1..NumTasks
\* a project with one task more, for the cycles that go through several tasks
CycleTasks == 1..(NumTasks + 1)
CallSid(i) == NumTasks + 1 + i
CallSids == {CallSid(i) : i \in 1..MaxCalls}
Keys == Tasks \cup CallSids
RetryDelay == RETRY_DELAY_HOURS * TicksPerHour
TicksPerDay == 24 * TicksPerHour

\* the two CallManager instances of the process: main.py's and webhook_server.py's
Managers == {"main", "web"}
\* the request threads of the webhook server: one request at a time (WebThreads),
\* or two requests in flight (Handlers)
WebThreads == {"w1"}
Handlers == {"w1", "w2"}
Threads == {"poll", "sched"} \cup Handlers

CallOutcome == {"confirmed", "declined", "no_answer", "busy", "failed"}
Retryable == {"no_answer", "busy", "failed"}
CUSTOM_FIELDS == {"phone_number", "operation_mode", "retry_count", "last_call_time", "call_outcome"}
STATUS_IDS == {"confirmed", "customer_unavailable", "pending_confirmation"}

VARIABLES
    now,            \* wall clock, in ticks
    board,          \* the task board: task id -> its fields
    pending_calls,  \* manager -> (key -> TaskData): each CallManager's registry
    calls,          \* the provider's calls, in the order they were placed
    jobs,           \* the jobs of the schedule library's default scheduler
    pc,             \* thread -> position in the code
    frame,          \* thread -> local variables of the running operation
    warnings        \* number of "No task found for call" warnings logged

vars == <<now, board, pending_calls, calls, jobs, pc, frame, warnings>>

\* ------------------------------------------------------------ models.py
\* custom_fields holds the custom fields as they were read from the board; of
\* these the model keeps the status
TaskData(task_id, retry_count, status) ==
    [task_id |-> task_id, retry_count |-> retry_count, last_call_time |-> <<>>,
     custom_fields |-> [status |-> status]]

NoTask ==
    [task_id |-> 0, retry_count |-> 0, last_call_time |-> <<>>,
     custom_fields |-> [status |-> "None"]]

\* transcript is the transcript argument of handle_call_completion; id and
\* response are the correlating identifier a request carried and the HTTP status
\* of the response (0: none yet)
IdleFrame ==
    [mgr |-> "web", queue |-> <<>>, sid |-> 0, key |-> 0, task |-> NoTask,
     outcome |-> "None", current_count |-> 0, transcript |-> <<>>,
     id |-> <<>>, response |-> 0]

\* ------------------------------------------------------ asana_client.py
\* the write is dropped without a word
update_task_status_dropped(b, task_id, status_name) == b

update_task_status(b, task_id, status_name) ==
    IF status_name \in STATUS_IDS THEN [b EXCEPT ![task_id].status = status_name] ELSE b

\* the field is not written
update_task_fields_dropped(b, task_id, field_name, value) == b

update_task_fields(b, task_id, field_name, value) ==
    IF field_name \in CUSTOM_FIELDS THEN [b EXCEPT ![task_id][field_name] = value] ELSE b

\* str.lower() on the values the model gives the Operation Mode field
lower(s) ==
    IF s = "PICKUP" THEN "pickup" ELSE IF s = "Delivery" THEN "delivery" ELSE s

\* models.py: OperationMode(value) raises ValueError on any other value
OperationMode == {"pickup", "delivery"}

\* the transcript is not attached
attach_transcript_dropped(b, task_id, transcript, call_sid) == b

\* lines 115-130: a comment on the task
attach_transcript(b, task_id, transcript, call_sid) ==
    [b EXCEPT ![task_id].stories = Append(@, [call_sid |-> call_sid, text |-> transcript])]

\* lines 32-47: the incomplete tasks of the project, in the order of the board;
\* a task without phone number or operation mode ("" for None) is passed over,
\* and so is one whose operation mode does not parse (the ValueError is logged)
get_tasks_for_confirmation(b) ==
    LET ids == {i \in DOMAIN b : /\ b[i].phone_number # ""
                                 /\ b[i].operation_mode # ""
                                 /\ lower(b[i].operation_mode) \in OperationMode}
        id(k) == CHOOSE i \in ids : Cardinality({j \in ids : j < i}) = k - 1
    IN  [k \in 1..Cardinality(ids) |-> TaskData(id(k), b[id(k)].retry_count, b[id(k)].status)]

\* the task is returned whatever its phone number and operation mode
get_task_by_id_unchecked(b, task_id) ==
    IF task_id \notin DOMAIN b THEN <<>>
    ELSE <<TaskData(task_id, b[task_id].retry_count, b[task_id].status)>>

\* lines 143-156: None when the board does not know the id, when the phone
\* number is None (TaskData does not validate), when the operation mode is None
\* (None has no lower()) or does not parse: every exception is caught and logged
get_task_by_id(b, task_id) ==
    IF task_id \notin DOMAIN b THEN <<>>
    ELSE IF b[task_id].phone_number = "" THEN <<>>
    ELSE IF b[task_id].operation_mode = "" THEN <<>>
    ELSE IF lower(b[task_id].operation_mode) \notin OperationMode THEN <<>>
    ELSE <<TaskData(task_id, b[task_id].retry_count, b[task_id].status)>>

\* ---------------------------------------------------- call_manager.py
\* off by one: the task at the ceiling is still called
exceeded_max_retries_strict(task) == task.retry_count > MAX_RETRY_ATTEMPTS

exceeded_max_retries(task) == task.retry_count >= MAX_RETRY_ATTEMPTS

\* the comparison the wrong way round
not_ready_for_retry_reversed(task, t) ==
    /\ task.last_call_time # <<>>
    /\ t - task.last_call_time[1] > RetryDelay

not_ready_for_retry(task, t) ==
    /\ task.last_call_time # <<>>
    /\ t - task.last_call_time[1] < RetryDelay

max_retries_reached(task) == task.retry_count + 1 >= MAX_RETRY_ATTEMPTS

\* the duration is not looked at: every completed call counts as confirmed
get_call_outcome_from_status_no_duration(call_status, duration) ==
    IF call_status = "completed" THEN "confirmed"
    ELSE IF call_status = "busy" THEN "busy"
    ELSE IF call_status = "failed" THEN "failed"
    ELSE "no_answer"

get_call_outcome_from_status(call_status, duration) ==
    IF call_status = "completed" /\ duration # <<>> /\ duration[1] > 0 THEN "confirmed"
    ELSE IF call_status = "busy" THEN "busy"
    ELSE IF call_status = "no-answer" THEN "no_answer"
    ELSE IF call_status = "failed" THEN "failed"
    ELSE "no_answer"

\* strftime("%H:%M") keeps the time of day and drops the date
TimeOfDay(t) == t % TicksPerDay

\* schedule.every().day.at(at): today at `at` if that is still ahead, else tomorrow
next_run(t, at) ==
    LET midnight == t - TimeOfDay(t)
    IN  IF at > TimeOfDay(t) THEN midnight + at ELSE midnight + TicksPerDay + at

\* one job a task: the new job takes the place of the task's earlier ones
schedule_retry_replacing(js, mgr, task_id, t) ==
    Append(SelectSeq(js, LAMBDA job : job.task_id # task_id),
           [mgr |-> mgr, task_id |-> task_id,
            next_run |-> next_run(t, TimeOfDay(t + RetryDelay)), last_run |-> <<>>])

schedule_retry(js, mgr, task_id, t) ==
    Append(js, [mgr |-> mgr, task_id |-> task_id,
                next_run |-> next_run(t, TimeOfDay(t + RetryDelay)), last_run |-> <<>>])

\* the entry is left in the registry
del_pending_kept(p, key) == p

\* del self.pending_calls[call_sid]
del_pending(p, key) == [k \in (DOMAIN p) \ {key} |-> p[k]]

\* pending_calls.pop(call_sid, None) in place of del: no KeyError
del_raises_never(p, key) == FALSE

\* del raises KeyError when the key is gone
del_raises(p, key) == key \notin DOMAIN p

\* the lookup takes no notice of the key: any registered task will do
pending_get_any(p, key) ==
    IF DOMAIN p # {} THEN <<p[CHOOSE k \in DOMAIN p : TRUE]>> ELSE <<>>

\* self.pending_calls.get(call_sid)
pending_get(p, key) == IF key \in DOMAIN p THEN <<p[key]>> ELSE <<>>

\* the call is placed and never registered
set_pending_dropped(p, key, task) == p

\* self.pending_calls[call_sid] = task
set_pending(p, key, task) == [k \in (DOMAIN p) \cup {key} |-> IF k = key THEN task ELSE p[k]]

\* ------------------------------------------------------ twilio_client.py
\* speech is None/empty (<<>>) or <<the set of the tokens it contains>>;
\* digits is "" for None/empty
user_choice(speech, digits) ==
    IF speech # <<>> THEN
        IF "yes" \in speech[1] \/ "confirm" \in speech[1] THEN "confirmed"
        ELSE IF "no" \in speech[1] \/ "decline" \in speech[1] THEN "declined"
        ELSE IF "reschedule" \in speech[1] THEN "reschedule"
        ELSE "None"
    ELSE IF digits # "" THEN
        IF digits = "1" THEN "confirmed"
        ELSE IF digits = "2" THEN "declined"
        ELSE IF digits = "3" THEN "reschedule"
        ELSE "None"
    ELSE "None"

\* ----------------------------------------------------- webhook_server.py
complete_outcome(outcome) ==
    IF outcome = "confirmed" THEN "confirmed"
    ELSE IF outcome = "declined" THEN "declined"
    ELSE IF outcome = "reschedule" THEN "declined"
    ELSE "no_answer"

\* the CallManager a thread's operations run on
manager_of(th) == IF th = "poll" THEN "main" ELSE "web"

\* the index in calls of a call sid
CallIndex(sid) == sid - NumTasks - 1

\* ---------------------------------------------------------------- states
InitCounts == 0..(MAX_RETRY_ATTEMPTS - 1)

\* phone_number and operation_mode are custom fields of the board ("" for a
\* field left empty); stories are the comments on the task
TaskFields(c, phone_number, operation_mode) ==
    [retry_count |-> c, status |-> "pending_confirmation", call_outcome |-> "None",
     last_call_time |-> <<>>, phone_number |-> phone_number,
     operation_mode |-> operation_mode, stories |-> <<>>]

NewTask(c) == TaskFields(c, "+15550100", "pickup")

Init ==
    /\ now = 0
    /\ board \in [Tasks -> {NewTask(c) : c \in InitCounts}]
    /\ pending_calls = [m \in Managers |-> <<>>]
    /\ calls = <<>>
    /\ jobs = <<>>
    /\ pc = [th \in Threads |-> "idle"]
    /\ frame = [th \in Threads |-> IdleFrame]
    /\ warnings = 0

\* the operation of thread th returns: its locals are gone
Return(th) ==
    /\ pc' = [pc EXCEPT ![th] = "idle"]
    /\ frame' = [frame EXCEPT ![th] = IdleFrame]

\* the failure of one task ends the cycle
NextTask_abort(th) == Return(th)

\* process_single_task returns: the for loop of process_confirmation_tasks goes on
\* with the next task, or the operation returns
NextTask(th) ==
    LET rest == Tail(frame[th].queue)
    IN  IF rest = <<>> THEN Return(th)
        ELSE /\ pc' = [pc EXCEPT ![th] = "loop"]
             /\ frame' = [frame EXCEPT ![th] =
                            [IdleFrame EXCEPT !.mgr = frame[th].mgr, !.queue = rest]]

Tick ==
    /\ now < MaxTime
    /\ now' = now + 1
    /\ UNCHANGED <<board, pending_calls, calls, jobs, pc, frame, warnings>>

\* ------------------------------------------- CallManager: placing calls
process_confirmation_tasks(th) ==
    /\ pc[th] = "idle"
    /\ LET tasks == get_tasks_for_confirmation(board)
       IN  /\ tasks # <<>>
           /\ pc' = [pc EXCEPT ![th] = "loop"]
           /\ frame' = [frame EXCEPT ![th] =
                          [IdleFrame EXCEPT !.mgr = manager_of(th), !.queue = tasks]]
    /\ UNCHANGED <<now, board, pending_calls, calls, jobs, warnings>>

\* twilio_client.py 19-34: what make_call can return when cs are the calls so
\* far and the provider takes max_calls calls in all: None (the call was not
\* created), or the sid of the call it created.  The provider gives every call
\* a sid of its own; with reused, a provider (or a test double) that does not
\* may also hand out the sid of an earlier call.
make_call(cs, max_calls, reused) ==
    {<<>>} \cup
    (IF Len(cs) < max_calls
     THEN {<<CallSid(Len(cs) + 1)>>} \cup
          (IF reused THEN {<<CallSid(i)>> : i \in 1..Len(cs)} ELSE {})
     ELSE {})

\* the failed call is taken for a placed one
call_placed_always(call_sid) == TRUE

\* line 55: if call_sid:
call_placed(call_sid) == call_sid # <<>>

\* lines 29-55: the decision, and make_call when the decision is to call
process_single_task_with(th, max_calls, reused) ==
    /\ pc[th] = "loop"
    /\ LET task == Head(frame[th].queue)
       IN  IF exceeded_max_retries(task) THEN
               /\ board' = update_task_status(board, task.task_id, "customer_unavailable")
               /\ NextTask(th)
               /\ UNCHANGED <<calls>>
           ELSE IF not_ready_for_retry(task, now) THEN
               /\ NextTask(th)
               /\ UNCHANGED <<board, calls>>
           ELSE \E call_sid \in make_call(calls, max_calls, reused) :
               /\ calls' = IF call_sid # <<>>
                           THEN Append(calls,
                                  [task_id |-> task.task_id,
                                   board_count |-> board[task.task_id].retry_count,
                                   gathered |-> <<>>, applied |-> <<>>,
                                   restarted |-> FALSE])
                           ELSE calls
               /\ IF call_placed(call_sid) THEN
                      /\ pc' = [pc EXCEPT ![th] = "update_fields"]
                      /\ frame' = [frame EXCEPT ![th].sid =
                                     IF call_sid # <<>> THEN call_sid[1] ELSE 0]
                  ELSE NextTask(th)
               /\ UNCHANGED <<board>>
    /\ UNCHANGED <<now, pending_calls, jobs, warnings>>

\* the provider takes max_calls calls in all
process_single_task_within(th, max_calls) == process_single_task_with(th, max_calls, FALSE)

process_single_task(th) == process_single_task_within(th, MaxCalls)

\* lines 57-60: 'call_sid' is no key of CUSTOM_FIELDS and is dropped
process_single_task_update(th) ==
    /\ pc[th] = "update_fields"
    /\ LET task == Head(frame[th].queue)
       IN  board' = update_task_fields(
                      update_task_fields(board, task.task_id, "last_call_time", <<now>>),
                      task.task_id, "call_sid", frame[th].sid)
    /\ pc' = [pc EXCEPT ![th] = "store_pending"]
    /\ UNCHANGED <<now, pending_calls, calls, jobs, frame, warnings>>

\* lines 57-60 when the board refuses the write: update_task_fields logs the
\* error and returns False (asana_client.py 91-94), which process_single_task
\* does not look at
process_single_task_update_failed(th) ==
    /\ pc[th] = "update_fields"
    /\ pc' = [pc EXCEPT ![th] = "store_pending"]
    /\ UNCHANGED <<now, board, pending_calls, calls, jobs, frame, warnings>>

\* line 63
process_single_task_store(th) ==
    /\ pc[th] = "store_pending"
    /\ pending_calls' = [pending_calls EXCEPT ![frame[th].mgr] =
                           set_pending(@, frame[th].sid, Head(frame[th].queue))]
    /\ NextTask(th)
    /\ UNCHANGED <<now, board, calls, jobs, warnings>>

\* ------------------------------------------ CallManager: completing calls
\* lines 75-78: the lookup; without a task the operation logs a warning and
\* returns
handle_call_completion_lookup_with(th, key, outcome, transcript) ==
    /\ LET task == pending_get(pending_calls[manager_of(th)], key)
       IN  IF task # <<>> THEN
               /\ pc' = [pc EXCEPT ![th] = "remove_pending"]
               /\ frame' = [frame EXCEPT ![th] =
                              [IdleFrame EXCEPT !.mgr = manager_of(th), !.key = key,
                                                !.outcome = outcome, !.task = task[1],
                                                !.transcript = transcript]]
               /\ UNCHANGED warnings
           ELSE
               /\ warnings < MaxWarnings
               /\ warnings' = warnings + 1
               /\ Return(th)
    /\ UNCHANGED <<now, board, pending_calls, calls, jobs>>

\* transcript is left at its default, None
handle_call_completion_lookup(th, key, outcome) ==
    handle_call_completion_lookup_with(th, key, outcome, <<>>)

\* the call of handle_call_completion and its lookup, in one step
handle_call_completion(th, key, outcome) ==
    /\ pc[th] = "idle"
    /\ handle_call_completion_lookup(th, key, outcome)

\* handle_call_completion(call_sid, outcome, transcript)
handle_call_completion_transcript(th, key, outcome, transcript) ==
    /\ pc[th] = "idle"
    /\ handle_call_completion_lookup_with(th, key, outcome, transcript)

\* line 81; a KeyError ends the operation in the except clause of line 114
handle_call_completion_remove(th) ==
    /\ pc[th] = "remove_pending"
    /\ LET p == pending_calls[frame[th].mgr]
           key == frame[th].key
       IN  IF del_raises(p, key) THEN
               /\ Return(th)
               /\ UNCHANGED <<pending_calls, calls>>
           ELSE
               /\ pending_calls' = [pending_calls EXCEPT ![frame[th].mgr] = del_pending(p, key)]
               /\ calls' = [calls EXCEPT ![CallIndex(key)].applied = Append(@, frame[th].outcome)]
               /\ pc' = [pc EXCEPT ![th] = "write_outcome"]
               /\ UNCHANGED frame
    /\ UNCHANGED <<now, board, jobs, warnings>>

\* lines 84-90; an empty transcript is falsy, as None is
handle_call_completion_outcome(th) ==
    /\ pc[th] = "write_outcome"
    /\ LET task_id == frame[th].task.task_id
           transcript == frame[th].transcript
           b == update_task_fields(board, task_id, "call_outcome", frame[th].outcome)
       IN  board' = IF transcript # <<>> /\ transcript[1] # ""
                    THEN attach_transcript(b, task_id, transcript[1], frame[th].key)
                    ELSE b
    /\ pc' = [pc EXCEPT ![th] = "apply_outcome"]
    /\ UNCHANGED <<now, pending_calls, calls, jobs, frame, warnings>>

\* lines 93-103, up to the read of increment_retry_count (asana_client.py 100-106)
handle_call_completion_apply(th) ==
    /\ pc[th] = "apply_outcome"
    /\ LET task_id == frame[th].task.task_id
       IN  IF frame[th].outcome = "confirmed" THEN
               /\ board' = update_task_status(board, task_id, "confirmed")
               /\ Return(th)
           ELSE IF frame[th].outcome = "declined" THEN
               /\ board' = update_task_status(board, task_id, "customer_unavailable")
               /\ Return(th)
           ELSE IF frame[th].outcome \in Retryable THEN
               /\ frame' = [frame EXCEPT ![th].current_count = board[task_id].retry_count]
               /\ pc' = [pc EXCEPT ![th] = "write_count"]
               /\ UNCHANGED board
           ELSE
               /\ Return(th)
               /\ UNCHANGED board
    /\ UNCHANGED <<now, pending_calls, calls, jobs, warnings>>

\* asana_client.py 108-109: the write of increment_retry_count
increment_retry_count(th) ==
    /\ pc[th] = "write_count"
    /\ board' = update_task_fields(board, frame[th].task.task_id, "retry_count",
                                   frame[th].current_count + 1)
    /\ pc' = [pc EXCEPT ![th] = "check_max"]
    /\ UNCHANGED <<now, pending_calls, calls, jobs, frame, warnings>>

\* lines 106-112
handle_call_completion_retry(th) ==
    /\ pc[th] = "check_max"
    /\ LET task == frame[th].task
       IN  IF max_retries_reached(task) THEN
               /\ board' = update_task_status(board, task.task_id, "customer_unavailable")
               /\ UNCHANGED jobs
           ELSE
               /\ jobs' = schedule_retry(jobs, frame[th].mgr, task.task_id, now)
               /\ UNCHANGED board
    /\ Return(th)
    /\ UNCHANGED <<now, pending_calls, calls, warnings>>

\* --------------------------------------------------- the retry scheduler
\* run_scheduler: schedule.run_pending() runs a due job, the earliest first, and
\* the daily job is due again a day later; the job is retry_task (lines 132-139)
run_scheduler ==
    /\ pc["sched"] = "idle"
    /\ \E j \in 1..Len(jobs) :
          /\ jobs[j].next_run <= now
          /\ \A k \in 1..Len(jobs) : jobs[k].next_run >= jobs[j].next_run
          /\ jobs' = [jobs EXCEPT ![j].next_run = @ + TicksPerDay, ![j].last_run = <<now>>]
          /\ LET task == get_task_by_id(board, jobs[j].task_id)
             IN  IF task # <<>> THEN
                     /\ pc' = [pc EXCEPT !["sched"] = "loop"]
                     /\ frame' = [frame EXCEPT !["sched"] =
                                    [IdleFrame EXCEPT !.mgr = jobs[j].mgr, !.queue = task]]
                 ELSE UNCHANGED <<pc, frame>>
    /\ UNCHANGED <<now, board, pending_calls, calls, warnings>>

\* ------------------------------------------------------ webhook_server.py
StatusInputs ==
    {"completed", "busy", "no-answer"} \X {<<>>, <<0>>, <<45>>}

\* the speech and keypad input the Gather verb reports
GatherInputs == {<<<<>>, "2">>}

\* /gather, while the call is in progress: the response redirects the call to
\* /complete with the choice that generate_gather_response made of the input
gather(i, speech, digits) ==
    /\ i \in 1..Len(calls)
    /\ calls[i].gathered = <<>>
    /\ calls[i].applied = <<>>
    /\ calls' = [calls EXCEPT ![i].gathered = <<[speech |-> speech, digits |-> digits]>>]
    /\ UNCHANGED <<now, board, pending_calls, jobs, pc, frame, warnings>>

\* /complete?task_id=..&outcome=..: handle_call_completion is given the task id
complete(th, i) ==
    /\ i \in 1..Len(calls)
    /\ calls[i].gathered # <<>>
    /\ LET input == calls[i].gathered[1]
       IN  handle_call_completion(th, calls[i].task_id,
                                  complete_outcome(user_choice(input.speech, input.digits)))

\* /complete, lines 64-80: the arguments are read and the outcome is mapped
complete_request(th, i) ==
    /\ pc[th] = "idle"
    /\ i \in 1..Len(calls)
    /\ calls[i].gathered # <<>>
    /\ LET input == calls[i].gathered[1]
       IN  frame' = [frame EXCEPT ![th] =
                       [IdleFrame EXCEPT
                          !.mgr = manager_of(th), !.key = calls[i].task_id,
                          !.outcome = complete_outcome(user_choice(input.speech, input.digits))]]
    /\ pc' = [pc EXCEPT ![th] = "complete_call"]
    /\ UNCHANGED <<now, board, pending_calls, calls, jobs, warnings>>

\* /complete, line 83: handle_call_completion(task_id, call_outcome)
complete_handle(th) ==
    /\ pc[th] = "complete_call"
    /\ handle_call_completion_lookup(th, frame[th].key, frame[th].outcome)

\* /status: the provider's status callback of call i; a call whose callee gave
\* input was answered, and the provider reports it completed with its duration
status_callback(th, i, call_status, duration) ==
    /\ i \in 1..Len(calls)
    /\ calls[i].gathered # <<>> =>
          call_status = "completed" /\ duration # <<>> /\ duration[1] > 0
    /\ handle_call_completion(th, CallSid(i),
                              get_call_outcome_from_status(call_status, duration))

\* /process
process_tasks(th) == process_confirmation_tasks(th)

\* main.py: the main loop
main == process_confirmation_tasks("poll")

Next ==
    \/ Tick
    \/ main
    \/ run_scheduler
    \/ \E th \in WebThreads : process_tasks(th)
    \/ \E th \in Threads : process_single_task(th)
    \/ \E th \in Threads : process_single_task_update(th)
    \/ \E th \in Threads : process_single_task_store(th)
    \/ \E i \in 1..MaxCalls, in \in GatherInputs : gather(i, in[1], in[2])
    \/ \E th \in WebThreads, i \in 1..MaxCalls : complete(th, i)
    \/ \E th \in WebThreads, i \in 1..MaxCalls, in \in StatusInputs :
          status_callback(th, i, in[1], in[2])
    \/ \E th \in WebThreads : handle_call_completion_remove(th)
    \/ \E th \in WebThreads : handle_call_completion_outcome(th)
    \/ \E th \in WebThreads : handle_call_completion_apply(th)
    \/ \E th \in WebThreads : increment_retry_count(th)
    \/ \E th \in WebThreads : handle_call_completion_retry(th)

Spec == Init /\ [][Next]_vars

\* ---------------------------------------------------------------------
\* The webhook server run on its own (webhook_server.py as the main module): two
\* requests in flight, no main loop and no scheduler thread.
NextWeb ==
    \/ Tick
    \/ \E th \in Handlers : process_tasks(th)
    \/ \E th \in Handlers : process_single_task(th)
    \/ \E th \in Handlers : process_single_task_update(th)
    \/ \E th \in Handlers : process_single_task_store(th)
    \/ \E i \in 1..MaxCalls, in \in GatherInputs : gather(i, in[1], in[2])
    \/ \E th \in Handlers, i \in 1..MaxCalls : complete(th, i)
    \/ \E th \in Handlers, i \in 1..MaxCalls, in \in StatusInputs :
          status_callback(th, i, in[1], in[2])
    \/ \E th \in Handlers : handle_call_completion_remove(th)
    \/ \E th \in Handlers : handle_call_completion_outcome(th)
    \/ \E th \in Handlers : handle_call_completion_apply(th)
    \/ \E th \in Handlers : increment_retry_count(th)
    \/ \E th \in Handlers : handle_call_completion_retry(th)

SpecWeb == Init /\ [][NextWeb]_vars

\* ---------------------------------------------------------------------
\* The retry scheduler over days: schedule_retry called directly, the
\* run_scheduler thread, and the clock as its sleep lets it pass.
sleep ==
    /\ now < MaxUptime
    /\ now' = now + 1
    /\ UNCHANGED <<board, pending_calls, calls, jobs, pc, frame, warnings>>

\* schedule_retry(task_id), called while fewer than max_jobs jobs are scheduled
call_schedule_retry_within(th, task_id, max_jobs) ==
    /\ pc[th] = "idle"
    /\ Len(jobs) < max_jobs
    /\ jobs' = schedule_retry(jobs, manager_of(th), task_id, now)
    /\ UNCHANGED <<now, board, pending_calls, calls, pc, frame, warnings>>

call_schedule_retry(th, task_id) == call_schedule_retry_within(th, task_id, MaxJobs)

NextSched ==
    \/ sleep
    \/ \E task_id \in Tasks : call_schedule_retry("w1", task_id)
    \/ run_scheduler
    \/ process_single_task("sched")
    \/ process_single_task_update("sched")
    \/ process_single_task_store("sched")

SpecSched == Init /\ [][NextSched]_vars

\* ---------------------------------------------------------------------
\* The main loop on its own, cycle after cycle, while no callback arrives.
NextDriver ==
    \/ Tick
    \/ main
    \/ process_single_task_within("poll", MaxDriverCalls)
    \/ process_single_task_update("poll")
    \/ process_single_task_store("poll")

SpecDriver == Init /\ [][NextDriver]_vars

\* ---------------------------------------------------------------------
\* Status callbacks of one request thread with every call status the provider
\* can post (canceled stands for the statuses the code does not name), with and
\* without a duration.
AllStatusInputs ==
    {"completed", "busy", "no-answer", "failed", "canceled"} \X {<<>>, <<0>>, <<45>>}

NextStatus ==
    \/ Tick
    \/ process_tasks("w1")
    \/ process_single_task("w1")
    \/ process_single_task_update("w1")
    \/ process_single_task_store("w1")
    \/ \E i \in 1..MaxCalls, in \in AllStatusInputs : status_callback("w1", i, in[1], in[2])
    \/ handle_call_completion_remove("w1")
    \/ handle_call_completion_outcome("w1")
    \/ handle_call_completion_apply("w1")
    \/ increment_retry_count("w1")
    \/ handle_call_completion_retry("w1")

SpecStatus == Init /\ [][NextStatus]_vars

\* ---------------------------------------------------------------------
\* The calls in progress: /gather with speech (the set of the tokens it contains;
\* {} is speech without any of them), keypad input, both or neither, and the
\* /complete the response redirects to.
AllGatherInputs ==
    {<<<<>>, "">>, <<<<>>, "1">>, <<<<>>, "2">>, <<<<>>, "3">>, <<<<>>, "9">>,
     <<<<{}>>, "">>, <<<<{"yes"}>>, "">>, <<<<{"confirm"}>>, "">>, <<<<{"no"}>>, "">>,
     <<<<{"decline"}>>, "">>, <<<<{"reschedule"}>>, "">>,
     <<<<{}>>, "1">>, <<<<{"yes"}>>, "2">>, <<<<{"no"}>>, "1">>, <<<<{"yes", "no"}>>, "">>}

NextGather ==
    \/ Tick
    \/ process_tasks("w1")
    \/ process_single_task("w1")
    \/ process_single_task_update("w1")
    \/ process_single_task_store("w1")
    \/ \E i \in 1..MaxCalls, in \in AllGatherInputs : gather(i, in[1], in[2])
    \/ \E i \in 1..MaxCalls : complete_request("w1", i)
    \/ complete_handle("w1")

SpecGather == Init /\ [][NextGather]_vars

\* ---------------------------------------------------------------------
\* The operations of one CallManager called directly, with any arguments, and
\* its run_scheduler thread.
MaxCount == MAX_RETRY_ATTEMPTS + 1

TaskInputs ==
    [task_id : Tasks, retry_count : 0..MaxCount,
     last_call_time : {<<>>} \cup {<<t>> : t \in 0..MaxTime},
     custom_fields : {[status |-> st] : st \in STATUS_IDS}]

call_process_single_task(th, task) ==
    /\ pc[th] = "idle"
    /\ pc' = [pc EXCEPT ![th] = "loop"]
    /\ frame' = [frame EXCEPT ![th] =
                   [IdleFrame EXCEPT !.mgr = manager_of(th), !.queue = <<task>>]]
    /\ UNCHANGED <<now, board, pending_calls, calls, jobs, warnings>>

NextUnit ==
    \/ Tick
    \/ \E task \in TaskInputs : call_process_single_task("w1", task)
    \/ process_single_task("w1")
    \/ process_single_task_update("w1")
    \/ process_single_task_store("w1")
    \/ \E key \in Keys, outcome \in CallOutcome : handle_call_completion("w1", key, outcome)
    \/ handle_call_completion_remove("w1")
    \/ handle_call_completion_outcome("w1")
    \/ handle_call_completion_apply("w1")
    \/ increment_retry_count("w1")
    \/ handle_call_completion_retry("w1")
    \/ run_scheduler
    \/ process_single_task("sched")
    \/ process_single_task_update("sched")
    \/ process_single_task_store("sched")

SpecUnit == Init /\ [][NextUnit]_vars

\* ---------------------------------------------------------------------
\* The requests as they arrive: the correlating identifier is absent (<<>>), one
\* that no task and no call has (0), a task id or a call sid.  A handler that
\* returns before handle_call_completion leaves its response in the frame; the
\* response after handle_call_completion is 200 OK and is not kept.
RequestIds == {<<>>, <<0>>} \cup {<<k>> : k \in Keys}

\* the handler returns this response
Respond(th, id, status) ==
    /\ pc' = [pc EXCEPT ![th] = "respond"]
    /\ frame' = [frame EXCEPT ![th] = [IdleFrame EXCEPT !.id = id, !.response = status]]

\* the response is sent
respond(th) ==
    /\ pc[th] = "respond"
    /\ Return(th)
    /\ UNCHANGED <<now, board, pending_calls, calls, jobs, warnings>>

\* /webhook?task_id=..
webhook(th, task_id) ==
    /\ pc[th] = "idle"
    /\ IF task_id = <<>> THEN Respond(th, task_id, 400)
       ELSE IF get_task_by_id(board, task_id[1]) = <<>> THEN Respond(th, task_id, 404)
       ELSE Respond(th, task_id, 200)
    /\ UNCHANGED <<now, board, pending_calls, calls, jobs, warnings>>

\* /gather?task_id=..
gather_query(th, task_id) ==
    /\ pc[th] = "idle"
    /\ IF task_id = <<>> THEN Respond(th, task_id, 400) ELSE Respond(th, task_id, 200)
    /\ UNCHANGED <<now, board, pending_calls, calls, jobs, warnings>>

\* /complete?task_id=..&outcome=.., lines 62-80
complete_query(th, task_id, outcome) ==
    /\ pc[th] = "idle"
    /\ IF task_id = <<>> THEN Respond(th, task_id, 400)
       ELSE /\ frame' = [frame EXCEPT ![th] =
                          [IdleFrame EXCEPT !.mgr = manager_of(th), !.key = task_id[1],
                                            !.id = task_id,
                                            !.outcome = complete_outcome(outcome)]]
            /\ pc' = [pc EXCEPT ![th] = "complete_call"]
    /\ UNCHANGED <<now, board, pending_calls, calls, jobs, warnings>>

\* /status with the form fields CallSid, CallStatus and CallDuration: CallSid is
\* a required str of WebhookEvent, so that without it the constructor raises
\* and the except clause of line 116 answers 500
status_form(th, call_sid, call_status, duration) ==
    /\ pc[th] = "idle"
    /\ IF call_sid = <<>> THEN
           /\ Respond(th, call_sid, 500)
           /\ UNCHANGED <<now, board, pending_calls, calls, jobs, warnings>>
       ELSE handle_call_completion_lookup(th, call_sid[1],
                                          get_call_outcome_from_status(call_status, duration))

NextRequests ==
    \/ process_tasks("w1")
    \/ process_single_task("w1")
    \/ process_single_task_update("w1")
    \/ process_single_task_store("w1")
    \/ \E id \in RequestIds : webhook("w1", id)
    \/ \E id \in RequestIds : gather_query("w1", id)
    \/ \E id \in RequestIds, outcome \in {"confirmed", "None"} : complete_query("w1", id, outcome)
    \/ complete_handle("w1")
    \/ \E id \in RequestIds, in \in StatusInputs : status_form("w1", id, in[1], in[2])
    \/ handle_call_completion_remove("w1")
    \/ handle_call_completion_outcome("w1")
    \/ handle_call_completion_apply("w1")
    \/ increment_retry_count("w1")
    \/ handle_call_completion_retry("w1")
    \/ respond("w1")

SpecRequests == Init /\ [][NextRequests]_vars

\* ---------------------------------------------------------------------
\* process_single_task called directly while the provider may hand out a call
\* sid a second time.
NextDuplicate ==
    \/ Tick
    \/ \E task \in TaskInputs : call_process_single_task("w1", task)
    \/ process_single_task_with("w1", MaxCalls, TRUE)
    \/ process_single_task_update("w1")
    \/ process_single_task_store("w1")

SpecDuplicate == Init /\ [][NextDuplicate]_vars

\* ---------------------------------------------------------------------
\* The cycles of the main loop and the fired retries over a project of several
\* tasks, some of them with a phone number or an operation mode left empty or
\* an operation mode that is no member of OperationMode, while make_call and
\* the board writes may fail.
PhoneNumbers == {"", "+15550100"}
OperationModes == {"", "PICKUP", "fax"}

InitCycle ==
    /\ now = 0
    /\ board \in [CycleTasks -> {TaskFields(c, ph, op) :
                                   c \in InitCounts, ph \in PhoneNumbers, op \in OperationModes}]
    /\ pending_calls = [m \in Managers |-> <<>>]
    /\ calls = <<>>
    /\ jobs = <<>>
    /\ pc = [th \in Threads |-> "idle"]
    /\ frame = [th \in Threads |-> IdleFrame]
    /\ warnings = 0

NextCycle ==
    \/ Tick
    \/ main
    \/ \E task_id \in CycleTasks : call_schedule_retry_within("w1", task_id, MaxJobs + 1)
    \/ run_scheduler
    \/ \E th \in {"poll", "sched"} : process_single_task(th)
    \/ \E th \in {"poll", "sched"} : process_single_task_update(th)
    \/ \E th \in {"poll", "sched"} : process_single_task_update_failed(th)
    \/ \E th \in {"poll", "sched"} : process_single_task_store(th)

SpecCycle == InitCycle /\ [][NextCycle]_vars

\* ---------------------------------------------------------------------
\* The webhook server killed and started again between the requests: the board
\* and the provider's calls are as they were, the threads and what the process
\* kept in memory are gone.
\* the registry is saved and read back at startup
CallManager_restored(m) == pending_calls[m]

\* call_manager.py 12-15: CallManager() starts with self.pending_calls = {}
CallManager(m) == <<>>

\* restarted marks the calls that were placed before a restart
restart ==
    /\ pending_calls' = [m \in Managers |-> CallManager(m)]
    /\ jobs' = <<>>
    /\ pc' = [th \in Threads |-> "idle"]
    /\ frame' = [th \in Threads |-> IdleFrame]
    /\ calls' = [i \in 1..Len(calls) |-> [calls[i] EXCEPT !.restarted = TRUE]]
    /\ UNCHANGED <<now, board, warnings>>

NextRestart ==
    \/ Tick
    \/ restart
    \/ process_tasks("w1")
    \/ process_single_task("w1")
    \/ process_single_task_update("w1")
    \/ process_single_task_store("w1")
    \/ \E i \in 1..MaxCalls, in \in StatusInputs : status_callback("w1", i, in[1], in[2])
    \/ handle_call_completion_remove("w1")
    \/ handle_call_completion_outcome("w1")
    \/ handle_call_completion_apply("w1")
    \/ increment_retry_count("w1")
    \/ handle_call_completion_retry("w1")

SpecRestart == Init /\ [][NextRestart]_vars

\* ---------------------------------------------------------------------
\* Busy calls, one more than MaxCalls, and their status callbacks on two request
\* threads of the webhook server.
NextBusy ==
    \/ \E th \in Handlers : process_tasks(th)
    \/ \E th \in Handlers : process_single_task_within(th, MaxCalls + 1)
    \/ \E th \in Handlers : process_single_task_update(th)
    \/ \E th \in Handlers : process_single_task_store(th)
    \/ \E th \in Handlers, i \in 1..(MaxCalls + 1) : status_callback(th, i, "busy", <<>>)
    \/ \E th \in Handlers : handle_call_completion_remove(th)
    \/ \E th \in Handlers : handle_call_completion_outcome(th)
    \/ \E th \in Handlers : handle_call_completion_apply(th)
    \/ \E th \in Handlers : increment_retry_count(th)
    \/ \E th \in Handlers : handle_call_completion_retry(th)

SpecBusy == Init /\ [][NextBusy]_vars

\* ---------------------------------------------------------------------
\* handle_call_completion called directly for the calls of the webhook server,
\* with every outcome, without a transcript (None), with an empty one and with
\* one that has text.
Transcripts == {<<>>, <<"">>, <<"Yes, please deliver.">>}

NextTranscript ==
    \/ process_tasks("w1")
    \/ process_single_task("w1")
    \/ process_single_task_update("w1")
    \/ process_single_task_store("w1")
    \/ \E key \in CallSids, outcome \in CallOutcome, transcript \in Transcripts :
          handle_call_completion_transcript("w1", key, outcome, transcript)
    \/ handle_call_completion_remove("w1")
    \/ handle_call_completion_outcome("w1")
    \/ handle_call_completion_apply("w1")
    \/ increment_retry_count("w1")
    \/ handle_call_completion_retry("w1")

SpecTranscript == Init /\ [][NextTranscript]_vars

\* =====================================================================
\* Properties

\* thread th takes this step
Moves(th) == pc'[th] # pc[th] \/ frame'[th] # frame[th]

\* the task process_single_task is working on
CurrentTask(th) == Head(frame[th].queue)

\* C1: process_single_task on a task whose retry_count is >= MAX_RETRY_ATTEMPTS,
\* whatever its last_call_time, places no call and registers nothing; all it does
\* is set the task status to customer_unavailable.
C1_ExceededMarksUnavailable ==
    [][\A th \in Threads :
          (/\ pc[th] = "loop"
           /\ CurrentTask(th).retry_count >= MAX_RETRY_ATTEMPTS
           /\ Moves(th))
          => /\ calls' = calls
             /\ pending_calls' = pending_calls
             /\ jobs' = jobs
             /\ board' = [board EXCEPT ![CurrentTask(th).task_id].status = "customer_unavailable"]
             /\ pc'[th] = "idle"]_vars

\* a task was marked unavailable although no call was ever placed: only the
\* retry ceiling of process_single_task does that
C1_Witness ==
    \E t \in Tasks :
        /\ board[t].status = "customer_unavailable"
        /\ calls = <<>>
        /\ \A th \in Threads : pc[th] = "idle"

\* C7: applying a terminal outcome to a registered call sets the status (confirmed
\* gives confirmed, declined gives customer_unavailable), leaves the retry count
\* alone and schedules no retry.
C7_TerminalOutcome ==
    [][\A th \in Threads :
          (/\ pc[th] \in {"remove_pending", "write_outcome", "apply_outcome"}
           /\ frame[th].outcome \in {"confirmed", "declined"}
           /\ Moves(th))
          => LET t == frame[th].task.task_id
             IN  /\ board'[t].retry_count = board[t].retry_count
                 /\ jobs' = jobs
                 /\ pc[th] = "remove_pending" => pc'[th] = "write_outcome"
                 /\ pc[th] = "write_outcome" => pc'[th] = "apply_outcome"
                 /\ pc[th] = "apply_outcome" =>
                       /\ pc'[th] = "idle"
                       /\ board'[t].status =
                             IF frame[th].outcome = "confirmed" THEN "confirmed"
                             ELSE "customer_unavailable"]_vars

\* one call was confirmed and a later one declined, and the task is unavailable
C7_Witness ==
    \E i, j \in 1..Len(calls) :
        /\ calls[i].applied = <<"confirmed">>
        /\ calls[j].applied = <<"declined">>
        /\ calls[i].task_id = calls[j].task_id
        /\ board[calls[j].task_id].status = "customer_unavailable"
        /\ board[calls[j].task_id].call_outcome = "declined"
        /\ \A th \in Threads : pc[th] = "idle"

\* C10: process_single_task on a task below the retry ceiling whose last_call_time
\* is less than RETRY_DELAY before now skips: no call, no board write, no
\* registry change.
C10_RecentCallSkips ==
    [][\A th \in Threads :
          (/\ pc[th] = "loop"
           /\ CurrentTask(th).retry_count < MAX_RETRY_ATTEMPTS
           /\ CurrentTask(th).last_call_time # <<>>
           /\ now - CurrentTask(th).last_call_time[1] < RETRY_DELAY_HOURS * TicksPerHour
           /\ Moves(th))
          => /\ calls' = calls
             /\ board' = board
             /\ pending_calls' = pending_calls
             /\ jobs' = jobs
             /\ pc'[th] = "idle"]_vars

\* process_single_task is about to decide on a task called in this very hour,
\* with a call already registered
C10_Witness ==
    \E th \in Threads :
        /\ pc[th] = "loop"
        /\ CurrentTask(th).retry_count < MAX_RETRY_ATTEMPTS
        /\ CurrentTask(th).last_call_time = <<now>>
        /\ pending_calls["web"] # <<>>

\* C2: with the terminal callbacks of a call handled one after another, once a
\* completion has been applied for a call id no later handle_call_completion finds
\* a task for it; the later callback is dropped with a warning and changes
\* nothing, and no call id ever has a second completion applied.
C2_SecondCompletionNoOp ==
    [][/\ \A th \in Threads :
             (pc[th] = "idle" /\ pc'[th] = "remove_pending")
             => /\ frame'[th].key \in CallSids
                /\ calls[CallIndex(frame'[th].key)].applied = <<>>
       /\ warnings' # warnings
             => /\ warnings' = warnings + 1
                /\ UNCHANGED <<now, board, pending_calls, calls, jobs, pc, frame>>
       /\ \A i \in 1..Len(calls') : Len(calls'[i].applied) <= 1]_vars

\* the only call placed had its completion applied, and a callback was dropped
\* with a warning.  No input was gathered, so the dropped callback was a status
\* callback of that call; no job exists, so the call was placed and registered by
\* the request thread itself, which took the callback only afterwards: the
\* callback came after the completion.
C2_Witness ==
    /\ Len(calls) = 1
    /\ calls[1].applied # <<>>
    /\ calls[1].gathered = <<>>
    /\ warnings = 1
    /\ jobs = <<>>
    /\ \A th \in Threads : pc[th] = "idle"

\* C3: of two handle_call_completion running at once for one call id, at most one
\* gets past the removal from pending_calls, in every interleaving of the lookups
\* and removals.
C3_AtMostOneCompletion ==
    \A i \in 1..Len(calls) : Len(calls[i].applied) <= 1

\* both threads looked the call up before either removed it; one has removed it
\* and the other is about to
C3_Witness ==
    \E th1, th2 \in Handlers, i \in 1..Len(calls) :
        /\ th1 # th2
        /\ pc[th1] = "write_outcome" /\ frame[th1].key = CallSid(i)
        /\ pc[th2] = "remove_pending" /\ frame[th2].key = CallSid(i)
        /\ calls[i].applied # <<>>

\* C4: no call is placed for a task whose retry count on the board is at the
\* ceiling when the call is placed, and a task at the ceiling is unavailable (or
\* confirmed) once the completion that raised the count has finished.
C4_NoCallAtCeiling ==
    /\ \A i \in 1..Len(calls) : calls[i].board_count < MAX_RETRY_ATTEMPTS
    /\ \A t \in Tasks :
          (/\ board[t].retry_count >= MAX_RETRY_ATTEMPTS
           /\ \A th \in Threads : pc[th] = "check_max" => frame[th].task.task_id # t)
          => board[t].status \in {"customer_unavailable", "confirmed"}

\* C5: a call registered by the main loop's process_single_task is found when the
\* status callback carrying its call id is handled.
C5_DriverCallFound ==
    [][\A th \in Threads, i \in 1..Len(calls), in \in StatusInputs :
          (/\ CallSid(i) \in DOMAIN pending_calls["main"]
           /\ status_callback(th, i, in[1], in[2]))
          => /\ pc'[th] = "remove_pending"
             /\ frame'[th].task.task_id = calls[i].task_id]_vars

\* C6: when the callee pressed 2 during a call, every outcome applied to the task
\* for that call is declined.
C6_DigitTwoDeclines ==
    \A i \in 1..Len(calls) :
        (calls[i].gathered # <<>> /\ calls[i].gathered[1].digits = "2")
        => \A k \in 1..Len(calls[i].applied) : calls[i].applied[k] = "declined"

\* C8: when a retryable outcome has raised the retry count to the ceiling, the
\* status is set to customer_unavailable and no retry is scheduled.
C8_CeilingMarksUnavailable ==
    [][\A th \in Threads :
          (/\ pc[th] = "check_max"
           /\ frame[th].current_count + 1 >= MAX_RETRY_ATTEMPTS
           /\ Moves(th))
          => /\ board'[frame[th].task.task_id].status = "customer_unavailable"
             /\ jobs' = jobs]_vars

\* C9: when a retryable outcome is applied and the new retry count is below the
\* ceiling, the count on the board becomes one more than it was, the status stays
\* as it is, and one retry is scheduled for the task RETRY_DELAY later.
C9_RetryScheduled ==
    [][\A th \in Threads :
          (/\ pc[th] \in {"write_count", "check_max"}
           /\ frame[th].outcome \in {"no_answer", "busy", "failed"}
           /\ frame[th].current_count + 1 < MAX_RETRY_ATTEMPTS
           /\ Moves(th))
          => LET t == frame[th].task.task_id
             IN  /\ board'[t].status = board[t].status
                 /\ pc[th] = "write_count" =>
                       /\ board'[t].retry_count = board[t].retry_count + 1
                       /\ jobs' = jobs
                 /\ pc[th] = "check_max" =>
                       /\ board'[t].retry_count = board[t].retry_count
                       /\ Len(jobs') = Len(jobs) + 1
                       /\ jobs'[Len(jobs')].task_id = t
                       /\ jobs'[Len(jobs')].next_run = now + RETRY_DELAY_HOURS * TicksPerHour
                       /\ \A j \in 1..Len(jobs) : jobs'[j] = jobs[j]]_vars

\* C11: process_single_task on a task below the retry ceiling that has no
\* last_call_time, or whose last_call_time is RETRY_DELAY or more before now,
\* makes one call attempt; when the call is placed it is one new call for that
\* task, the next step writes last_call_time = now on the board and the step after
\* registers the call's sid with the task in pending_calls.
C11_PlaceCall ==
    [][\A th \in Threads :
          /\ (/\ pc[th] = "loop"
              /\ CurrentTask(th).retry_count < MAX_RETRY_ATTEMPTS
              /\ \/ CurrentTask(th).last_call_time = <<>>
                 \/ now - CurrentTask(th).last_call_time[1] >= RETRY_DELAY_HOURS * TicksPerHour
              /\ Moves(th))
             => /\ board' = board
                /\ pending_calls' = pending_calls
                /\ \/ calls' = calls /\ pc'[th] = "idle"
                   \/ /\ Len(calls') = Len(calls) + 1
                      /\ \A i \in 1..Len(calls) : calls'[i] = calls[i]
                      /\ calls'[Len(calls')].task_id = CurrentTask(th).task_id
                      /\ frame'[th].sid = CallSid(Len(calls'))
                      /\ pc'[th] = "update_fields"
          /\ (pc[th] = "update_fields" /\ Moves(th))
             => /\ board'[CurrentTask(th).task_id].last_call_time = <<now>>
                /\ calls' = calls
                /\ pc'[th] = "store_pending"
          /\ (pc[th] = "store_pending" /\ Moves(th))
             => /\ frame[th].sid \in DOMAIN pending_calls'[frame[th].mgr]
                /\ pending_calls'[frame[th].mgr][frame[th].sid] = CurrentTask(th)
                /\ \A k \in DOMAIN pending_calls[frame[th].mgr] :
                      k # frame[th].sid =>
                         pending_calls'[frame[th].mgr][k] = pending_calls[frame[th].mgr][k]
                /\ board' = board /\ calls' = calls]_vars

\* a task last called exactly RETRY_DELAY ago was called again: the call is
\* registered with the task and the board holds the new last_call_time
C11_Witness ==
    \E k \in DOMAIN pending_calls["web"] :
        /\ now >= RETRY_DELAY_HOURS * TicksPerHour
        /\ pending_calls["web"][k].last_call_time = <<now - RETRY_DELAY_HOURS * TicksPerHour>>
        /\ pending_calls["web"][k].retry_count < MAX_RETRY_ATTEMPTS
        /\ calls[CallIndex(k)].task_id = pending_calls["web"][k].task_id
        /\ board[pending_calls["web"][k].task_id].last_call_time = <<now>>

\* C12: get_call_outcome_from_status gives one outcome for every call status and
\* duration (absent, 0 or positive): completed with a positive duration gives
\* confirmed, busy gives busy, no-answer gives no_answer, failed gives failed, and
\* everything else (completed without a positive duration, an unknown status)
\* gives no_answer; the outcome is never declined.
C12_StatusOutcome ==
    [][\A th \in Threads, i \in 1..Len(calls), in \in AllStatusInputs :
          (status_callback(th, i, in[1], in[2]) /\ pc'[th] = "remove_pending")
          => LET outcome == frame'[th].outcome
                 positive == in[2] # <<>> /\ in[2][1] > 0
             IN  /\ outcome \in {"confirmed", "busy", "no_answer", "failed"}
                 /\ (in[1] = "completed" /\ positive) => outcome = "confirmed"
                 /\ in[1] = "busy" => outcome = "busy"
                 /\ in[1] = "no-answer" => outcome = "no_answer"
                 /\ in[1] = "failed" => outcome = "failed"
                 /\ (in[1] = "completed" /\ ~positive) => outcome = "no_answer"
                 /\ in[1] \notin {"completed", "busy", "no-answer", "failed"}
                       => outcome = "no_answer"]_vars

\* the status callbacks of two calls were applied, one as failed and one as
\* confirmed
C12_Witness ==
    \E i, j \in 1..Len(calls) :
        /\ calls[i].applied = <<"failed">>
        /\ calls[j].applied = <<"confirmed">>
        /\ \A th \in Threads : pc[th] = "idle"

\* C13: the outcome /complete hands to handle_call_completion for the input of
\* /gather, speech and keypad input taken together: "yes" or "confirm" in the
\* speech, or digit 1, gives confirmed; otherwise "no" or "decline" in the speech,
\* or digit 2, gives declined; otherwise "reschedule" in the speech, or digit 3,
\* gives declined; input with none of these gives no_answer.
C13_ContentOutcome ==
    [][\A th \in Threads, i \in 1..Len(calls) :
          complete_request(th, i)
          => LET digits == calls[i].gathered[1].digits
                 speech == IF calls[i].gathered[1].speech = <<>> THEN {}
                           ELSE calls[i].gathered[1].speech[1]
             IN  frame'[th].outcome =
                    IF "yes" \in speech \/ "confirm" \in speech \/ digits = "1"
                        THEN "confirmed"
                    ELSE IF "no" \in speech \/ "decline" \in speech \/ digits = "2"
                        THEN "declined"
                    ELSE IF "reschedule" \in speech \/ digits = "3"
                        THEN "declined"
                    ELSE "no_answer"]_vars

\* C14: a cycle of the main loop that reads a task whose status is terminal on
\* the board (confirmed or customer_unavailable) places no call for it.
C14_NoCallAfterTerminal ==
    [][(/\ pc["poll"] = "loop"
        /\ CurrentTask("poll").custom_fields.status \in {"confirmed", "customer_unavailable"}
        /\ Moves("poll"))
       => calls' = calls]_vars

\* C15: when a scheduled retry fires and the task it reads from the board has a
\* terminal status (confirmed or customer_unavailable), the retry does nothing:
\* no call, no board write, nothing registered, and the scheduler is idle again.
C15_RetryOfTerminalNoOp ==
    [][(/\ pc["sched"] = "loop"
        /\ CurrentTask("sched").custom_fields.status \in {"confirmed", "customer_unavailable"}
        /\ Moves("sched"))
       => /\ calls' = calls
          /\ board' = board
          /\ pending_calls' = pending_calls
          /\ pc'["sched"] = "idle"]_vars

\* C16: a retry scheduled with schedule_retry is due RETRY_DELAY or more after
\* the moment it was scheduled, fires only when it is due, and fires once: a
\* job that has run does not run again.
C16_RetryFiresOnce ==
    [][/\ Len(jobs') > Len(jobs)
          => jobs'[Len(jobs')].next_run >= now + RETRY_DELAY_HOURS * TicksPerHour
       /\ \A j \in 1..Len(jobs) :
             jobs'[j].last_run # jobs[j].last_run
             => /\ jobs[j].next_run <= now
                /\ jobs[j].last_run = <<>>]_vars

\* C17: a call is placed for a task only when no last_call_time is recorded for
\* it on the board or the recorded one is RETRY_DELAY or more before now, whoever
\* places it: the main loop, a fired retry or /process.
C17_CallsApart ==
    [][\A th \in Threads :
          (pc[th] = "loop" /\ calls' # calls)
          => LET last == board[CurrentTask(th).task_id].last_call_time
             IN  last = <<>> \/ now - last[1] >= RETRY_DELAY_HOURS * TicksPerHour]_vars

\* C18: no task is ever called more than MAX_RETRY_ATTEMPTS times in all.
C18_CallsBounded ==
    \A t \in Tasks :
        Cardinality({i \in 1..Len(calls) : calls[i].task_id = t}) <= MAX_RETRY_ATTEMPTS

\* C19: while board writes of a completion are still to be made (the call
\* outcome, the retry count, the status), the call id is still in the registry
\* of pending calls: it is removed only after, or together with, the last write.
C19_WritesBeforeRemoval ==
    \A th \in Threads :
        pc[th] \in {"write_outcome", "apply_outcome", "write_count", "check_max"}
        => frame[th].key \in DOMAIN pending_calls[frame[th].mgr]

\* C20: a status callback whose call id is not in the registry of the webhook
\* server's CallManager is dropped: the handler returns, and the board, the
\* registries, the calls and the scheduled retries are as they were.
C20_UnknownCallDropped ==
    [][\A th \in Threads, i \in 1..Len(calls), in \in StatusInputs :
          (/\ status_callback(th, i, in[1], in[2])
           /\ CallSid(i) \notin DOMAIN pending_calls["web"])
          => /\ board' = board
             /\ pending_calls' = pending_calls
             /\ jobs' = jobs
             /\ calls' = calls
             /\ pc'[th] = "idle"
             /\ warnings' = warnings + 1]_vars

\* a status callback was dropped with a warning while another call was still
\* registered with the webhook server's CallManager and stayed so
C20_Witness ==
    /\ warnings = 1
    /\ Len(calls) = 2
    /\ calls[1].applied = <<>> /\ calls[2].applied = <<>>
    /\ calls[1].gathered = <<>> /\ calls[2].gathered = <<>>
    /\ Cardinality(DOMAIN pending_calls["web"]) = 1
    /\ Cardinality(DOMAIN pending_calls["main"]) = 1
    /\ \A t \in Tasks : board[t].call_outcome = "None"
    /\ \A th \in Threads : pc[th] = "idle"

\* C21: a request to /webhook, /gather, /complete or /status whose correlating
\* identifier (task_id; CallSid for /status) is missing is answered with a 4xx
\* status.
C21_MissingIdRejected ==
    \A th \in Threads :
        (pc[th] = "respond" /\ frame[th].id = <<>>) => frame[th].response \in 400..499

\* C22: registering a call id that is already in the registry fails and leaves
\* the association the registry holds for it (the task registered first) as it
\* was.
C22_DuplicateRejected ==
    [][\A th \in Threads :
          (/\ pc[th] = "store_pending"
           /\ Moves(th)
           /\ frame[th].sid \in DOMAIN pending_calls[frame[th].mgr])
          => pending_calls' = pending_calls]_vars

\* C23: whatever happens to one task inside process_single_task (make_call
\* fails, the board refuses a write), the operation returns to its caller: the
\* cycle goes on with the next task while tasks remain, and
\* process_confirmation_tasks or retry_task returns only when none does.
C23_CycleGoesOn ==
    [][\A th \in {"poll", "sched"} :
          (pc[th] \in {"loop", "update_fields", "store_pending"} /\ Moves(th))
          => \/ /\ frame'[th].queue = frame[th].queue
                /\ pc'[th] \in {"update_fields", "store_pending"}
             \/ /\ Tail(frame[th].queue) # <<>>
                /\ pc'[th] = "loop"
                /\ frame'[th].queue = Tail(frame[th].queue)
             \/ /\ Tail(frame[th].queue) = <<>>
                /\ pc'[th] = "idle"]_vars

\* the cycle is at its second task after make_call failed for the first: both
\* tasks were read, the first was due for a call, and no call was placed
C23_Witness ==
    /\ pc["poll"] = "loop"
    /\ Len(get_tasks_for_confirmation(board)) = 2
    /\ Len(frame["poll"].queue) = 1
    /\ board[1].retry_count < MAX_RETRY_ATTEMPTS
    /\ board[1].last_call_time = <<>>
    /\ calls = <<>>

\* C24: a restart leaves every registry empty, and the status callback of a
\* call that was placed before a restart is dropped: the handler returns, and
\* the board (fields, status, retry count), the registries and the scheduled
\* retries are as they were.
C24_RestartDropsCalls ==
    [][/\ restart => \A m \in Managers : pending_calls'[m] = <<>>
       /\ \A th \in Threads, i \in 1..Len(calls), in \in StatusInputs :
             (status_callback(th, i, in[1], in[2]) /\ calls[i].restarted)
             => /\ board' = board
                /\ pending_calls' = pending_calls
                /\ jobs' = jobs
                /\ pc'[th] = "idle"]_vars

\* the callback of the one call, placed before a restart, came and was dropped
C24_Witness ==
    /\ Len(calls) = 1
    /\ calls[1].restarted
    /\ calls[1].applied = <<>>
    /\ board[calls[1].task_id].last_call_time # <<>>
    /\ warnings = 1
    /\ pc["w1"] = "idle"

C26_FailedCallSkipsTask ==
    [][\A th \in Threads :
          (/\ pc[th] = "loop"
           /\ CurrentTask(th).retry_count < MAX_RETRY_ATTEMPTS
           /\ (CurrentTask(th).last_call_time = <<>>
               \/ now - CurrentTask(th).last_call_time[1] >= RetryDelay)
           /\ Moves(th)
           /\ calls' = calls)
          => /\ board' = board
             /\ pending_calls' = pending_calls
             /\ jobs' = jobs
             /\ pc'[th] \in {"loop", "idle"}
             /\ frame'[th].queue = IF pc'[th] = "loop" THEN Tail(frame[th].queue) ELSE <<>>
             /\ \A k \in 1..Len(frame'[th].queue) :
                   frame'[th].queue[k].task_id # CurrentTask(th).task_id]_vars

\* a retry fired for a task that was due for a call, and retry_task returned
\* without a call: make_call failed
C26_Witness ==
    /\ Len(jobs) = 1
    /\ jobs[1].last_run # <<>>
    /\ pc["sched"] = "idle"
    /\ get_task_by_id(board, jobs[1].task_id) # <<>>
    /\ board[jobs[1].task_id].retry_count < MAX_RETRY_ATTEMPTS
    /\ board[jobs[1].task_id].last_call_time = <<>>
    /\ calls = <<>>

\* the task's phone number is missing or its operation mode does not parse
InvalidData(t) ==
    \/ board[t].phone_number = ""
    \/ lower(board[t].operation_mode) \notin OperationMode

\* C27: a task whose phone number is missing or whose operation mode does not
\* parse is excluded from calling: neither a cycle of the driver nor a fired
\* retry places a call for it or registers it, and its status stays as it was.
C27_InvalidTaskNotCalled ==
    [][\A t \in CycleTasks :
          InvalidData(t)
          => /\ \A i \in 1..Len(calls') : calls'[i].task_id # t
             /\ \A m \in Managers : \A k \in DOMAIN pending_calls'[m] :
                   pending_calls'[m][k].task_id # t
             /\ \A th \in Threads : \A k \in 1..Len(frame'[th].queue) :
                   frame'[th].queue[k].task_id # t
             /\ board'[t] = board[t]]_vars

\* a retry fired for a task with invalid data, and a cycle of the driver went
\* through the project while the other task was called
C27_Witness ==
    \E t \in CycleTasks :
        /\ InvalidData(t)
        /\ \E j \in 1..Len(jobs) : jobs[j].task_id = t /\ jobs[j].last_run # <<>>
        /\ \E i \in 1..Len(calls) : calls[i].task_id # t

\* C28: what handle_call_completion does to the status, the retry count and
\* the scheduled retries of the task is decided by the outcome and the task
\* alone, with a transcript as without one; a transcript that is present is
\* appended to the task as a note, once, whatever the outcome, and without one
\* no note is written.
C28_TranscriptIsOnlyANote ==
    [][\A th \in Threads :
          LET f == frame[th]
              t == f.task.task_id
              present == f.transcript # <<>> /\ f.transcript[1] # ""
              note == [call_sid |-> f.key, text |-> f.transcript[1]]
          IN  /\ (pc[th] = "write_outcome" /\ Moves(th))
                 => /\ board'[t].stories =
                          IF present THEN Append(board[t].stories, note) ELSE board[t].stories
                    /\ board'[t].status = board[t].status
                    /\ board'[t].retry_count = board[t].retry_count
                    /\ jobs' = jobs
                    /\ pc'[th] = "apply_outcome"
              /\ (pc[th] = "apply_outcome" /\ Moves(th))
                 => /\ board'[t].stories = board[t].stories
                    /\ board'[t].status =
                          IF f.outcome = "confirmed" THEN "confirmed"
                          ELSE IF f.outcome = "declined" THEN "customer_unavailable"
                          ELSE board[t].status
                    /\ board'[t].retry_count = board[t].retry_count
                    /\ jobs' = jobs
                    /\ pc'[th] = IF f.outcome \in Retryable THEN "write_count" ELSE "idle"
              /\ (pc[th] = "write_count" /\ Moves(th))
                 => /\ board'[t].stories = board[t].stories
                    /\ board'[t].status = board[t].status
                    /\ board'[t].retry_count = f.current_count + 1
                    /\ jobs' = jobs
              /\ (pc[th] = "check_max" /\ Moves(th))
                 => /\ board'[t].stories = board[t].stories
                    /\ board'[t].retry_count = board[t].retry_count
                    /\ IF f.task.retry_count + 1 >= MAX_RETRY_ATTEMPTS
                       THEN /\ board'[t].status = "customer_unavailable"
                            /\ jobs' = jobs
                       ELSE /\ board'[t].status = board[t].status
                            /\ Len(jobs') = Len(jobs) + 1
                            /\ jobs'[Len(jobs')].task_id = t]_vars

\* two calls were completed with a transcript, one with a retryable outcome
\* and one with a terminal outcome, and the task has the two notes
C28_Witness ==
    /\ Len(calls) = 2
    /\ calls[1].applied # <<>> /\ calls[1].applied[1] \in Retryable
    /\ calls[2].applied # <<>> /\ calls[2].applied[1] \in {"confirmed", "declined"}
    /\ Len(board[calls[1].task_id].stories) = 2
    /\ pc["w1"] = "idle"

\* the calls of task t to which a retryable outcome was applied
RetryableApplied(t) ==
    {i \in 1..Len(calls) : /\ calls[i].task_id = t
                            /\ calls[i].applied # <<>>
                            /\ calls[i].applied[1] \in Retryable}

C30_RetriesNotDeduplicated ==
    [][/\ Len(jobs') # Len(jobs)
          => /\ Len(jobs') = Len(jobs) + 1
             /\ \A j \in 1..Len(jobs) : jobs'[j] = jobs[j]
       /\ \A j \in 1..Len(jobs) :
             (j <= Len(jobs') /\ jobs'[j] # jobs[j])
             => /\ jobs'[j].last_run = <<now>>
                /\ jobs'[j].task_id = jobs[j].task_id
                /\ Len(jobs') = Len(jobs)
                /\ \A k \in (1..Len(jobs)) \ {j} : jobs'[k] = jobs[k]
                /\ get_task_by_id(board, jobs[j].task_id) # <<>>
                   => /\ pc'["sched"] = "loop"
                      /\ Head(frame'["sched"].queue).task_id = jobs[j].task_id]_vars

\* two retries were scheduled for one task, and both have fired
C30_Witness ==
    /\ Len(jobs) = 2
    /\ jobs[1].task_id = jobs[2].task_id
    /\ jobs[1].last_run # <<>>
    /\ jobs[2].last_run # <<>>
    /\ get_task_by_id(board, jobs[1].task_id) # <<>>

\* C31: the first status callback of a placed call finds the task in the
\* registry, however it interleaves with the process_single_task that placed
\* the call: handle_call_completion goes on to apply the outcome.
C31_CallbackFindsTask ==
    [][\A th \in Handlers, i \in 1..Len(calls), in \in StatusInputs :
          (status_callback(th, i, in[1], in[2]) /\ calls[i].applied = <<>>)
          => pc'[th] = "remove_pending"]_vars

\* C32: once the handlers are idle, the retry count of a task on the board is
\* the count it had when its first call was placed plus the number of its calls
\* to which a retryable outcome was applied.
C32_NoIncrementLost ==
    \A t \in Tasks :
        (/\ \A th \in Threads : pc[th] = "idle"
         /\ \E i \in 1..Len(calls) : calls[i].task_id = t)
        => LET first == CHOOSE i \in 1..Len(calls) :
                            /\ calls[i].task_id = t
                            /\ \A j \in 1..(i - 1) : calls[j].task_id # t
           IN  board[t].retry_count =
                   calls[first].board_count + Cardinality(RetryableApplied(t))

\* every entry of a registry is keyed by the sid of a placed call, holds a
\* task of the id that call was placed for, and no completion of that call has
\* been applied
RegistryOk(p) ==
    \A m \in Managers : \A k \in DOMAIN p[m] :
        /\ CallIndex(k) \in 1..Len(calls)
        /\ p[m][k].task_id = calls[CallIndex(k)].task_id
        /\ calls[CallIndex(k)].applied = <<>>

\* C33: the registries are always as RegistryOk says; an entry is added only
\* by the process_single_task that placed its call, as its last step and with
\* the task it was given, and is removed only by the handle_call_completion
\* that looked it up.
C33_RegistryInvariant ==
    [][/\ RegistryOk(pending_calls)'
       /\ \A m \in Managers : \A k \in (DOMAIN pending_calls'[m]) \ DOMAIN pending_calls[m] :
             \E th \in Threads :
                 /\ pc[th] = "store_pending"
                 /\ frame[th].mgr = m
                 /\ frame[th].sid = k
                 /\ pending_calls'[m][k] = CurrentTask(th)
       /\ \A m \in Managers : \A k \in (DOMAIN pending_calls[m]) \ DOMAIN pending_calls'[m] :
             \E th \in Threads :
                 /\ pc[th] = "remove_pending"
                 /\ frame[th].mgr = m
                 /\ frame[th].key = k
                 /\ pc'[th] = "write_outcome"
       /\ \A m \in Managers : \A k \in (DOMAIN pending_calls[m]) \cap DOMAIN pending_calls'[m] :
             pending_calls'[m][k] = pending_calls[m][k]]_vars

\* a call was registered and completed while a second call is registered
C33_Witness ==
    /\ Len(calls) = 2
    /\ calls[1].applied # <<>>
    /\ DOMAIN pending_calls["web"] = {CallSid(2)}
    /\ \A th \in Threads : pc[th] = "idle"

\* C34: handle_call_completion writes the outcome it was given to the task's
\* call_outcome field as its first write to the board, and that step writes
\* nothing else; the status write and the retry-count increment of the same
\* completion come after it and leave the field as it is.
C34_OutcomeWrittenFirst ==
    [][\A th \in Threads :
          LET f == frame[th]
              t == f.task.task_id
          IN  /\ (pc[th] = "remove_pending" /\ Moves(th)) => board' = board
              /\ (pc[th] = "write_outcome" /\ Moves(th))
                 => board' = [board EXCEPT ![t].call_outcome = f.outcome]
              /\ (pc[th] \in {"apply_outcome", "write_count", "check_max"} /\ Moves(th))
                 => /\ board[t].call_outcome = f.outcome
                    /\ board'[t].call_outcome = f.outcome]_vars

\* a declined call: its outcome is on the board and the status is yet to be
\* written
C34_Witness ==
    /\ pc["w1"] = "apply_outcome"
    /\ frame["w1"].outcome = "declined"
    /\ board[frame["w1"].task.task_id].call_outcome = "declined"
    /\ board[frame["w1"].task.task_id].status = "pending_confirmation"

====
